---- MODULE Spec2Model ----
(***************************************************************************)
(* Model of csv_cleaner.py: header resolution, value cleaning, record      *)
(* assembly and de-duplication of contact-list CSV files.                  *)
(*                                                                         *)
(* A Python str is modelled as a sequence of one-character strings, so     *)
(* 'a@b' is <<"a","@","b">> and '' is <<>>.  The two non-ASCII members of   *)
(* NULL_LIKE are written as the one-element tokens EM_DASH and EN_DASH.    *)
(***************************************************************************)
EXTENDS Integers, Sequences, FiniteSets, TLC

VARIABLES
    listing,                    \* the list returned by os.listdir(INPUT_FOLDER)
    file_idx,                   \* index in listing of the next entry to visit
    pc,                         \* position of main: "loop", "rows", "done"
    fieldnames,                 \* reader.fieldnames of the open file
    mapping,                    \* Header Mapping of the open file
    reader,                     \* lines of the open file not yet consumed
    row,                        \* the dict of the last data row read
    clean_row,                  \* the Clean Record of the last data row read
    files_processed,
    rows_read,
    rows_written,
    rows_skipped_empty,
    dupes_removed,
    rows_skipped_invalid_email,
    seen,                       \* Seen Set
    output_rows,                \* Output Collection
    out_file,                   \* lines of OUTPUT_FILE, <<>> until written
    arg,                        \* argument of the function under test
    ret                         \* values returned by the calls made so far

counters == <<files_processed, rows_read, rows_written, rows_skipped_empty,
              dupes_removed, rows_skipped_invalid_email>>
runvars == <<listing, file_idx, pc, fieldnames, mapping, reader, row, clean_row,
             files_processed, rows_read, rows_written, rows_skipped_empty,
             dupes_removed, rows_skipped_invalid_email, seen, output_rows,
             out_file>>
vars == <<listing, file_idx, pc, fieldnames, mapping, reader, row, clean_row,
          files_processed, rows_read, rows_written, rows_skipped_empty,
          dupes_removed, rows_skipped_invalid_email, seen, output_rows,
          out_file, arg, ret>>

----------------------------------------------------------------------------
(* Bounds *)

MaxFiles == 3           \* entries in the input directory
MaxHeaderLen == 4       \* length of the generated header strings
MaxEmailLen == 5        \* length of the generated looks_like_email arguments
MaxValueLen == 4        \* length of the generated clean_value arguments

----------------------------------------------------------------------------
(* Python str primitives *)

None == <<"None">>
EM_DASH == "U+2014"
EN_DASH == "U+2013"

\* characters for which str.isspace() holds / that re's \s matches
WS == {" ", "\t", "\n", "\r", "\f"}

DIGITS == {"0", "1", "2", "3", "4", "5", "6", "7", "8", "9"}

UPPER == <<"A","B","C","D","E","F","G","H","I","J","K","L","M",
           "N","O","P","Q","R","S","T","U","V","W","X","Y","Z">>
LOWER == <<"a","b","c","d","e","f","g","h","i","j","k","l","m",
           "n","o","p","q","r","s","t","u","v","w","x","y","z">>

lower_char(c) ==
    IF \E i \in 1..26 : UPPER[i] = c
    THEN LOWER[CHOOSE i \in 1..26 : UPPER[i] = c]
    ELSE c

\* str.lower()
lower(s) == [i \in 1..Len(s) |-> lower_char(s[i])]

RECURSIVE lstrip_chars(_, _)
lstrip_chars(s, cs) ==
    IF s # <<>> /\ Head(s) \in cs THEN lstrip_chars(Tail(s), cs) ELSE s

RECURSIVE rstrip_chars(_, _)
rstrip_chars(s, cs) ==
    IF s # <<>> /\ s[Len(s)] \in cs
    THEN rstrip_chars(SubSeq(s, 1, Len(s) - 1), cs)
    ELSE s

\* str.strip(chars)
strip_chars(s, cs) == rstrip_chars(lstrip_chars(s, cs), cs)

\* str.strip()
strip(s) == strip_chars(s, WS)

\* str.replace(a, b) for a one-character a and a string b
RECURSIVE replace(_, _, _)
replace(s, a, b) ==
    IF s = <<>> THEN <<>>
    ELSE (IF Head(s) = a THEN b ELSE <<Head(s)>>) \o replace(Tail(s), a, b)

\* re.sub(r'\s+', '', s)
remove_ws(s) == SelectSeq(s, LAMBDA c : c \notin WS)

\* re.sub(r'\D', '', s)
only_digits(s) == SelectSeq(s, LAMBDA c : c \in DIGITS)

RECURSIVE split_ws(_, _, _)
split_ws(s, cur, acc) ==
    IF s = <<>> THEN (IF cur = <<>> THEN acc ELSE Append(acc, cur))
    ELSE IF Head(s) \in WS
         THEN split_ws(Tail(s), <<>>, IF cur = <<>> THEN acc ELSE Append(acc, cur))
         ELSE split_ws(Tail(s), Append(cur, Head(s)), acc)

\* str.split()
split(s) == split_ws(s, <<>>, <<>>)

RECURSIVE join(_, _)
\* sep.join(parts)
join(sep, parts) ==
    IF parts = <<>> THEN <<>>
    ELSE IF Len(parts) = 1 THEN parts[1]
    ELSE parts[1] \o sep \o join(sep, Tail(parts))

\* s.count(c)
count(s, c) == Cardinality({i \in 1..Len(s) : s[i] = c})

\* s.endswith(suffix)
endswith(s, suffix) ==
    /\ Len(s) >= Len(suffix)
    /\ SubSeq(s, Len(s) - Len(suffix) + 1, Len(s)) = suffix

\* s.startswith(prefix)
startswith(s, prefix) ==
    /\ Len(s) >= Len(prefix)
    /\ SubSeq(s, 1, Len(prefix)) = prefix

----------------------------------------------------------------------------
(* Module constants *)

Email == <<"e","m","a","i","l">>
Name == <<"n","a","m","e">>
Phone == <<"p","h","o","n","e">>

REQUIRED == <<Email, Name, Phone>>
REQUIRED_SET == {Email, Name, Phone}

SYNONYMS ==
    {  <<<<"e","-","m","a","i","l">>, Email>>,
       <<<<"e","m","a","i","l","_","a","d","d","r","e","s","s">>, Email>>,
       <<<<"e","m","a","i","l"," ","a","d","d","r","e","s","s">>, Email>>,
       <<<<"e","-","m","a","i","l","_","a","d","d","r","e","s","s">>, Email>>,
       <<<<"e","-","m","a","i","l"," ","a","d","d","r","e","s","s">>, Email>>,
       <<<<"m","a","i","l">>, Email>>,
       <<<<"e","m","a","i","l","_","a","d","d","r">>, Email>>,
       <<<<"e","m","a","i","l","a","d","d","r">>, Email>>,
       <<<<"f","u","l","l","_","n","a","m","e">>, Name>>,
       <<<<"f","u","l","l"," ","n","a","m","e">>, Name>>,
       <<<<"c","u","s","t","o","m","e","r","_","n","a","m","e">>, Name>>,
       <<<<"c","u","s","t","o","m","e","r"," ","n","a","m","e">>, Name>>,
       <<<<"c","o","n","t","a","c","t","_","n","a","m","e">>, Name>>,
       <<<<"c","o","n","t","a","c","t"," ","n","a","m","e">>, Name>>,
       <<<<"p","h","o","n","e","_","n","u","m","b","e","r">>, Phone>>,
       <<<<"p","h","o","n","e"," ","n","u","m","b","e","r">>, Phone>>,
       <<<<"p","h","o","n","e","_","n","o">>, Phone>>,
       <<<<"p","h","o","n","e"," ","n","o">>, Phone>>,
       <<<<"m","o","b","i","l","e">>, Phone>>,
       <<<<"m","o","b","i","l","e","_","n","u","m","b","e","r">>, Phone>>,
       <<<<"m","o","b","i","l","e"," ","n","u","m","b","e","r">>, Phone>>,
       <<<<"h","o","m","e","_","p","h","o","n","e">>, Phone>>,
       <<<<"h","o","m","e"," ","p","h","o","n","e">>, Phone>>,
       <<<<"t","e","l","e","p","h","o","n","e">>, Phone>>,
       <<<<"t","e","l">>, Phone>>,
       <<<<"n","u","m","b","e","r">>, Phone>>  }

\* SYNONYMS.get(h, h)
SYNONYMS_get(h) ==
    IF \E p \in SYNONYMS : p[1] = h
    THEN (CHOOSE p \in SYNONYMS : p[1] = h)[2]
    ELSE h

NULL_LIKE ==
    {  <<>>, <<"n","/","a">>, <<"n","a">>, <<"n","u","l","l">>,
       <<"n","o","n","e">>, <<"-">>, <<"n","a","n">>,
       <<EM_DASH>>, <<EN_DASH>>  }

----------------------------------------------------------------------------
(* Header Resolver *)

normalize_header(h) ==
    LET h1 == lower(strip(h))
        h2 == replace(h1, " ", <<"_">>)
        h3 == replace(h2, ".", <<>>)
        h4 == replace(h3, "#", <<>>)
    IN  SYNONYMS_get(h4)

RECURSIVE build_mapping_from(_, _)
\* the loop of build_mapping over the headers not yet visited
build_mapping_from(rest, m) ==
    IF rest = <<>> THEN m
    ELSE LET original == Head(rest)
             normed == normalize_header(original)
         IN  IF normed \in REQUIRED_SET /\ normed \notin DOMAIN m
             THEN build_mapping_from(Tail(rest), (normed :> original) @@ m)
             ELSE build_mapping_from(Tail(rest), m)

build_mapping(names) == build_mapping_from(names, <<>>)

----------------------------------------------------------------------------
(* Value Cleaner *)

RECURSIVE peel_quotes(_)
\* the while loop of strip_wrapping_quotes
peel_quotes(s) ==
    IF Len(s) >= 2 /\ s[1] = s[Len(s)] /\ s[1] \in {"'", "\""}
    THEN peel_quotes(strip(SubSeq(s, 2, Len(s) - 1)))
    ELSE s

strip_wrapping_quotes(s) == peel_quotes(strip(s))

\* s.replace('\t', ' ').replace('\r', ' ').replace('\n', ' ').strip()
normalize_ws(s) ==
    strip(replace(replace(replace(s, "\t", <<" ">>), "\r", <<" ">>), "\n", <<" ">>))

\* at most one leading '<' and at most one trailing '>' taken off
one_layer(s) ==
    LET a == IF s # <<>> /\ Head(s) = "<" THEN Tail(s) ELSE s
    IN  IF a # <<>> /\ a[Len(a)] = ">" THEN SubSeq(a, 1, Len(a) - 1) ELSE a

\* clean_value taking off a single layer of angle brackets
clean_value_one_layer(val, col) ==
    IF val = None THEN <<>>
    ELSE LET s2 == strip_wrapping_quotes(normalize_ws(val))
             s3 == IF col = Email
                   THEN strip(one_layer(lower(remove_ws(s2))))
                   ELSE join(<<" ">>, split(s2))
         IN  IF lower(s3) \in NULL_LIKE THEN <<>> ELSE s3

clean_value(val, col) ==
    IF val = None THEN <<>>
    ELSE LET s1 == normalize_ws(val)
             s2 == strip_wrapping_quotes(s1)
             s3 == IF col = Email
                   THEN strip(strip_chars(lower(remove_ws(s2)), {"<", ">"}))
                   ELSE join(<<" ">>, split(s2))
         IN  IF lower(s3) \in NULL_LIKE THEN <<>> ELSE s3

\* clean_phone without the UK mobile rewrite
clean_phone_no_rewrite(val) ==
    LET s == clean_value(val, Phone)
    IN  IF s = <<>> THEN <<>> ELSE only_digits(s)

clean_phone(val) ==
    LET s == clean_value(val, Phone)
        digits == only_digits(s)
    IN  IF s = <<>> THEN <<>>
        ELSE IF startswith(digits, <<"4","4">>) /\ Len(digits) = 12
                /\ digits[3] = "7"
             THEN <<"0">> \o SubSeq(digits, 3, Len(digits))
             ELSE digits

\* looks_like_email without the leading s.strip()
looks_like_email_no_strip(s0) ==
    LET s == s0
        at == CHOOSE i \in 1..Len(s) : s[i] = "@"
        local == SubSeq(s, 1, at - 1)
        domain == SubSeq(s, at + 1, Len(s))
    IN  IF s = <<>> THEN FALSE
        ELSE IF count(s, "@") # 1 THEN FALSE
        ELSE IF local = <<>> \/ domain = <<>> THEN FALSE
        ELSE IF count(domain, ".") = 0 THEN FALSE
        ELSE IF \E i \in 1..Len(s) : s[i] \in WS THEN FALSE
        ELSE TRUE

looks_like_email(s0) ==
    LET s == strip(s0)
        at == CHOOSE i \in 1..Len(s) : s[i] = "@"
        local == SubSeq(s, 1, at - 1)
        domain == SubSeq(s, at + 1, Len(s))
    IN  IF s = <<>> THEN FALSE
        ELSE IF count(s, "@") # 1 THEN FALSE
        ELSE IF local = <<>> \/ domain = <<>> THEN FALSE
        ELSE IF count(domain, ".") = 0 THEN FALSE
        ELSE IF \E i \in 1..Len(s) : s[i] \in WS THEN FALSE
        ELSE TRUE

----------------------------------------------------------------------------
(* csv module: reader, DictReader, DictWriter *)

RECURSIVE split_comma(_, _, _)
split_comma(s, cur, acc) ==
    IF s = <<>> THEN Append(acc, cur)
    ELSE IF Head(s) = ","
         THEN split_comma(Tail(s), <<>>, Append(acc, cur))
         ELSE split_comma(Tail(s), Append(cur, Head(s)), acc)

\* csv.reader on one line without double quotes: a blank line gives [],
\* any other line its comma-separated cells, spaces kept
csv_reader(line) == IF line = <<>> THEN <<>> ELSE split_comma(line, <<>>, <<>>)

RECURSIVE drop_blank(_)
\* DictReader.__next__ passes over the rows that are []
drop_blank(lines) ==
    IF lines # <<>> /\ csv_reader(Head(lines)) = <<>>
    THEN drop_blank(Tail(lines))
    ELSE lines

\* DictReader.fieldnames: the first row of the file, None when there is none
DictReader_fieldnames(lines) ==
    IF lines = <<>> THEN None ELSE csv_reader(Head(lines))

\* DictReader.__next__: dict(zip(fieldnames, cells)), then restval None for
\* the headers past the end of a short row.  Keys are assigned in column
\* order, so for a header spelled twice the later column's value stays.
\* (The restkey entry of a long row is never looked up and is left out.)
DictReader_row(names, cells) ==
    [k \in {names[i] : i \in 1..Len(names)} |->
        LET last == CHOOSE i \in 1..Len(names) :
                        /\ names[i] = k
                        /\ \A j \in 1..Len(names) : names[j] = k => j <= i
        IN  IF last <= Len(cells) THEN cells[last] ELSE None]

\* one field as csv.writer writes it (QUOTE_MINIMAL)
csv_field(f) ==
    IF \E i \in 1..Len(f) : f[i] \in {",", "\"", "\r", "\n"}
    THEN <<"\"">> \o replace(f, "\"", <<"\"", "\"">>) \o <<"\"">>
    ELSE f

\* DictWriter(fieldnames=REQUIRED).writerow(rec)
writerow(rec) == join(<<",">>, [i \in 1..Len(REQUIRED) |-> csv_field(rec[REQUIRED[i]])])

\* the lines of OUTPUT_FILE: writeheader() then writerows(output_rows)
written(rows) ==
    <<join(<<",">>, REQUIRED)>> \o [i \in 1..Len(rows) |-> writerow(rows[i])]

----------------------------------------------------------------------------
(* Record Assembler and Deduplicator *)

\* a key that also holds the name
row_key_with_name(rec) == <<"email", rec[Email], rec[Name]>>

row_key(rec) == <<"email", rec[Email]>>

\* the loop over REQUIRED in main that fills clean_row
process_row(d, m) ==
    [col \in REQUIRED_SET |->
        LET original_key == IF col \in DOMAIN m THEN m[col] ELSE None
            value == IF original_key \in DOMAIN d THEN d[original_key] ELSE <<>>
        IN  IF original_key = None \/ original_key = <<>> THEN <<>>
            ELSE IF col = Phone THEN clean_phone(value)
            ELSE clean_value(value, col)]

\* the tests with the email test ahead of the empty test
classify_email_first(rec, seen_set) ==
    IF ~looks_like_email(rec[Email]) THEN "InvalidEmail"
    ELSE IF \A c \in REQUIRED_SET : rec[c] = <<>> THEN "Empty"
    ELSE IF row_key(rec) \in seen_set THEN "Duplicate"
    ELSE "Accepted"

\* the three tests main applies to clean_row, in their order
classify(rec, seen_set) ==
    IF \A c \in REQUIRED_SET : rec[c] = <<>> THEN "Empty"
    ELSE IF ~looks_like_email(rec[Email]) THEN "InvalidEmail"
    ELSE IF row_key(rec) \in seen_set THEN "Duplicate"
    ELSE "Accepted"

\* output_rows.insert(0, clean_row)
append_front(rows, rec) == <<rec>> \o rows

\* the record written over the last one
append_overwrite(rows, rec) ==
    IF rows = <<>> THEN <<rec>> ELSE [rows EXCEPT ![Len(rows)] = rec]

\* output_rows.append(clean_row)
append(rows, rec) == Append(rows, rec)

\* filename.lower().endswith('.csv')
is_csv(filename) == endswith(lower(filename), <<".","c","s","v">>)

----------------------------------------------------------------------------
(* Input directories *)

FileA ==
    [name  |-> <<"a",".","c","s","v">>,
     lines |-> << <<"E","m","a","i","l",","," ","F","u","l","l"," ","N","a","m","e",","," ","M","o","b","i","l","e">>,
                  <<"J","O","H","N","@","X",".","C","O","M"," ",","," ","J","o","h","n"," ","S","m","i","t","h"," ",","," ","+","4","4","7","9","1","1","1","2","3","4","5","6">> >>]

FileB ==
    [name  |-> <<"b",".","c","s","v">>,
     lines |-> << <<"e","-","m","a","i","l"," ","a","d","d","r","e","s","s",",","n","a","m","e",",","t","e","l">>,
                  <<"j","o","h","n","@","x",".","c","o","m",",","J","o","h","n"," ","S",".",",","0","7","9","1","1","1","2","3","4","5","6">> >>]

\* name,phone,email with an all-blank row, a null-sentinel row, an invalid
\* email, a blank line, a quoted name with a spaced UK number and a
\* bracketed address, a short row, and two rows that repeat john@x.com
FileC ==
    [name  |-> <<"C",".","C","S","V">>,
     lines |-> << <<"n","a","m","e",",","p","h","o","n","e",",","e","m","a","i","l">>,
                  <<",",",">>,
                  <<"n","/","a",","," ","-"," ",",","N","U","L","L">>,
                  <<"B","o","b",",","1","2","3",",","b","a","d">>,
                  <<>>,
                  <<"A","l",",","1",",","J","O","H","N","@","x",".","c","o","m">>,
                  <<"'","Z","e","d","'"," ",",","4","4"," ","7","9","1","1"," ","1","2","3","4","5","6",",","<","z","@","q",".","i","o",">">>,
                  <<"A","n","n">>,
                  <<"A","l","2",",","2",",","j","o","h","n","@","X",".","c","o","m">> >>]

\* two differently spelled headers for email
FileD1 ==
    [name  |-> <<"d","1",".","c","s","v">>,
     lines |-> << <<"M","a","i","l",",","e","m","a","i","l",",","n","a","m","e">>,
                  <<"x","@","y",".","z",",","q","@","y",".","z",",","A","l">>,
                  <<"Z","e","d",","," ","1",",","z","@","q",".","i","o">> >>]

\* the same header twice
FileD2 ==
    [name  |-> <<"d","2",".","c","s","v">>,
     lines |-> << <<"e","m","a","i","l",",","e","m","a","i","l">>,
                  <<"a","@","x",".","c",",","b","@","x",".","c">>,
                  <<"c","@","x",".","c">> >>]

\* an empty file
FileE ==
    [name  |-> <<"e",".","c","s","v">>,
     lines |-> << >>]

\* not a .csv entry
FileN ==
    [name  |-> <<"n","o","t","e","s",".","t","x","t">>,
     lines |-> << <<"e","m","a","i","l">>, <<"c","@","x",".","c">> >>]

FILES == {FileA, FileB, FileC, FileD1, FileD2, FileE, FileN}

\* os.listdir returns the entries in arbitrary order
Listings ==
    {l \in UNION {[1..k -> FILES] : k \in 0..MaxFiles} :
        \A i, j \in 1..Len(l) : i # j => l[i] # l[j]}

----------------------------------------------------------------------------
(* main *)

RunInit ==
    /\ file_idx = 1
    /\ pc = "loop"
    /\ fieldnames = None
    /\ mapping = <<>>
    /\ reader = <<>>
    /\ row = <<>>
    /\ clean_row = <<>>
    /\ files_processed = 0
    /\ rows_read = 0
    /\ rows_written = 0
    /\ rows_skipped_empty = 0
    /\ dupes_removed = 0
    /\ rows_skipped_invalid_email = 0
    /\ seen = {}
    /\ output_rows = <<>>
    /\ out_file = <<>>

Init ==
    /\ listing \in Listings
    /\ RunInit
    /\ arg = <<>>
    /\ ret = <<>>

\* an entry whose name does not end in .csv: continue
SkipNonCsv ==
    /\ pc = "loop"
    /\ file_idx <= Len(listing)
    /\ ~is_csv(listing[file_idx].name)
    /\ file_idx' = file_idx + 1
    /\ UNCHANGED <<listing, pc, fieldnames, mapping, reader, row, clean_row,
                   counters, seen, output_rows, out_file, arg, ret>>

\* a .csv file without fieldnames: counted, then continue
SkipNoHeader ==
    /\ pc = "loop"
    /\ file_idx <= Len(listing)
    /\ is_csv(listing[file_idx].name)
    /\ LET names == DictReader_fieldnames(listing[file_idx].lines)
       IN  /\ names = None \/ names = <<>>
           /\ fieldnames' = names
    /\ files_processed' = files_processed + 1
    /\ file_idx' = file_idx + 1
    /\ UNCHANGED <<listing, pc, mapping, reader, row, clean_row, rows_read,
                   rows_written, rows_skipped_empty, dupes_removed,
                   rows_skipped_invalid_email, seen, output_rows, out_file,
                   arg, ret>>

\* a .csv file with a header row: counted, mapping built
OpenFile ==
    /\ pc = "loop"
    /\ file_idx <= Len(listing)
    /\ is_csv(listing[file_idx].name)
    /\ LET names == DictReader_fieldnames(listing[file_idx].lines)
       IN  /\ names # None /\ names # <<>>
           /\ fieldnames' = names
           /\ mapping' = build_mapping(names)
    /\ reader' = Tail(listing[file_idx].lines)
    /\ files_processed' = files_processed + 1
    /\ file_idx' = file_idx + 1
    /\ pc' = "rows"
    /\ UNCHANGED <<listing, row, clean_row, rows_read, rows_written,
                   rows_skipped_empty, dupes_removed,
                   rows_skipped_invalid_email, seen, output_rows, out_file,
                   arg, ret>>

\* one iteration of `for row in reader`
ProcessRow ==
    /\ pc = "rows"
    /\ drop_blank(reader) # <<>>
    /\ LET pending == drop_blank(reader)
           d == DictReader_row(fieldnames, csv_reader(Head(pending)))
           rec == process_row(d, mapping)
           outcome == classify(rec, seen)
       IN  /\ reader' = Tail(pending)
           /\ row' = d
           /\ clean_row' = rec
           /\ rows_read' = rows_read + 1
           /\ rows_skipped_empty' =
                  IF outcome = "Empty" THEN rows_skipped_empty + 1
                  ELSE rows_skipped_empty
           /\ rows_skipped_invalid_email' =
                  IF outcome = "InvalidEmail" THEN rows_skipped_invalid_email + 1
                  ELSE rows_skipped_invalid_email
           /\ dupes_removed' =
                  IF outcome = "Duplicate" THEN dupes_removed + 1
                  ELSE dupes_removed
           /\ seen' = IF outcome = "Accepted" THEN seen \cup {row_key(rec)}
                      ELSE seen
           /\ output_rows' = IF outcome = "Accepted" THEN append(output_rows, rec)
                             ELSE output_rows
           /\ rows_written' = IF outcome = "Accepted" THEN rows_written + 1
                              ELSE rows_written
    /\ UNCHANGED <<listing, file_idx, pc, fieldnames, mapping, files_processed,
                   out_file, arg, ret>>

\* the reader is exhausted: the file is closed, on to the next entry
CloseFile ==
    /\ pc = "rows"
    /\ drop_blank(reader) = <<>>
    /\ reader' = <<>>
    /\ pc' = "loop"
    /\ UNCHANGED <<listing, file_idx, fieldnames, mapping, row, clean_row,
                   counters, seen, output_rows, out_file, arg, ret>>

\* the listing is exhausted: OUTPUT_FILE is written
WriteOutput ==
    /\ pc = "loop"
    /\ file_idx > Len(listing)
    /\ out_file' = written(output_rows)
    /\ pc' = "done"
    /\ UNCHANGED <<listing, file_idx, fieldnames, mapping, reader, row,
                   clean_row, counters, seen, output_rows, arg, ret>>

Next ==
    \/ SkipNonCsv
    \/ SkipNoHeader
    \/ OpenFile
    \/ ProcessRow
    \/ CloseFile
    \/ WriteOutput

Spec == Init /\ [][Next]_vars


----------------------------------------------------------------------------
(* The functions called on their own *)

\* all strings over an alphabet up to a length
Strings(alphabet, n) == UNION {[1..k -> alphabet] : k \in 0..n}

\* main is not running
RunIdle ==
    /\ listing = <<>>
    /\ RunInit

HeaderAlphabet == {"a", "M", " ", "\t", "_", "-", ".", "#"}

HeaderInputs ==
    Strings(HeaderAlphabet, MaxHeaderLen)
        \cup {p[1] : p \in SYNONYMS}
        \cup REQUIRED_SET
        \cup {  <<"E","-","M","a","i","l"," ","A","d","d","r","e","s","s">>,
                <<"E","-","M","A","I","L"," ","A","D","D","R","E","S","S">>,
                <<" ","F","u","l","l"," ","N","a","m","e">>  }

InitHeader ==
    /\ RunIdle
    /\ arg \in HeaderInputs
    /\ ret = <<>>

\* normalize_header(arg)
CallNormalizeHeader ==
    /\ ret = <<>>
    /\ ret' = <<normalize_header(arg)>>
    /\ UNCHANGED <<runvars, arg>>

\* normalize_header applied to the value it returned
CallNormalizeHeaderAgain ==
    /\ Len(ret) = 1
    /\ ret' = Append(ret, normalize_header(ret[1]))
    /\ UNCHANGED <<runvars, arg>>

NextHeader == CallNormalizeHeader \/ CallNormalizeHeaderAgain

SpecHeader == InitHeader /\ [][NextHeader]_vars

EmailAlphabet == {"a", "@", ".", " ", "\t"}

EmailInputs ==
    Strings(EmailAlphabet, MaxEmailLen)
        \cup {  <<"a","@","b",".","c","o","m">>,
                <<"a","@","@","b",".","c","o","m">>,
                <<"a","@","b">>,
                <<"a"," ","b","@","c",".","c","o","m">>  }

InitEmail ==
    /\ RunIdle
    /\ arg \in EmailInputs
    /\ ret = <<>>

\* looks_like_email(arg)
CallLooksLikeEmail ==
    /\ ret = <<>>
    /\ ret' = <<looks_like_email(arg)>>
    /\ UNCHANGED <<runvars, arg>>

NextEmail == CallLooksLikeEmail

SpecEmail == InitEmail /\ [][NextEmail]_vars

ValueAlphabet == {"a", "B", "@", "<", ">", " ", "\t", "'", "\"", "-"}

ValueInputs ==
    Strings(ValueAlphabet, MaxValueLen)
        \cup {  None,
                <<" "," ","<","J","o","h","n",".","D","o","e","@","E","x","a","m","p","l","e",".","c","o","m",">"," ">>,
                <<"<","N","/","A",">">>  }

InitValue ==
    /\ RunIdle
    /\ arg \in ValueInputs
    /\ ret = <<>>

\* clean_value(arg, 'email')
CallCleanValueEmail ==
    /\ ret = <<>>
    /\ ret' = <<clean_value(arg, Email)>>
    /\ UNCHANGED <<runvars, arg>>

NextValue == CallCleanValueEmail

SpecValue == InitValue /\ [][NextValue]_vars

----------------------------------------------------------------------------
(* Properties of a run of main (Spec) *)

\* by how much a row step moved each of the four outcome counters
OutcomeDelta ==
    <<rows_skipped_empty' - rows_skipped_empty,
      rows_skipped_invalid_email' - rows_skipped_invalid_email,
      dupes_removed' - dupes_removed,
      rows_written' - rows_written>>

\* C1: every row read gets exactly one of the outcomes Empty, InvalidEmail,
\* Duplicate, Accepted; a row whose three cleaned fields are empty is Empty,
\* never InvalidEmail; InvalidEmail is exactly a non-empty row whose email
\* fails looks_like_email; only a row that passed both tests is looked up in
\* the Seen Set (Duplicate when its key is there, Accepted when not).
C1_ClassificationOrder ==
    [][rows_read' # rows_read =>
        LET rec == clean_row'
            empty == \A c \in REQUIRED_SET : rec[c] = <<>>
            valid == looks_like_email(rec[Email])
            known == <<"email", rec[Email]>> \in seen
        IN  /\ OutcomeDelta \in {<<1,0,0,0>>, <<0,1,0,0>>, <<0,0,1,0>>, <<0,0,0,1>>}
            /\ (OutcomeDelta = <<1,0,0,0>>) <=> empty
            /\ (OutcomeDelta = <<0,1,0,0>>) <=> (~empty /\ ~valid)
            /\ (OutcomeDelta = <<0,0,1,0>>) <=> (~empty /\ valid /\ known)
            /\ (OutcomeDelta = <<0,0,0,1>>) <=> (~empty /\ valid /\ ~known)
            /\ (empty \/ ~valid) => seen' = seen
    ]_vars

\* two all-empty rows (blank cells, then null sentinels) have been counted as
\* empty and no row has been counted as an invalid email
C1_Witness ==
    /\ rows_read > 0
    /\ \A c \in REQUIRED_SET : clean_row[c] = <<>>
    /\ rows_skipped_empty = 2
    /\ rows_skipped_invalid_email = 0

\* C2: a row whose cleaned email equals the email of an accepted record is
\* rejected as a duplicate whatever its name and phone: dupes_removed grows by
\* one, rows_written and the Output Collection stay; so no two records of the
\* Output Collection ever share an email.
C2_DedupeByEmail ==
    /\ [](\A i, j \in 1..Len(output_rows) :
            i # j => output_rows[i][Email] # output_rows[j][Email])
    /\ [][(/\ rows_read' # rows_read
           /\ \E i \in 1..Len(output_rows) :
                  output_rows[i][Email] = clean_row'[Email])
            => /\ dupes_removed' = dupes_removed + 1
               /\ rows_written' = rows_written
               /\ output_rows' = output_rows
               /\ seen' = seen
       ]_vars

\* a row of a second file was rejected as a duplicate of a record that has
\* another name
C2_Witness ==
    /\ dupes_removed >= 1
    /\ files_processed >= 2
    /\ \E i \in 1..Len(output_rows) :
          /\ output_rows[i][Email] = clean_row[Email]
          /\ output_rows[i][Name] # clean_row[Name]

\* C3: the Output Collection only grows at its end: every step leaves the
\* earlier collection as a prefix of the later one, an accepted row's record
\* is put after all earlier ones, and the entries of the listing are visited
\* in listing order and the rows of a file in file order.
C3_AppendOnly ==
    [][/\ Len(output_rows') >= Len(output_rows)
       /\ SubSeq(output_rows', 1, Len(output_rows)) = output_rows
       /\ rows_written' # rows_written =>
              output_rows' = output_rows \o <<clean_row'>>
       /\ file_idx' \in {file_idx, file_idx + 1}
       /\ (pc = "rows" /\ pc' = "rows") =>
              /\ Len(reader') < Len(reader)
              /\ reader' = SubSeq(reader, Len(reader) - Len(reader') + 1, Len(reader))
    ]_vars

\* three records accepted from at least two files
C3_Witness ==
    /\ Len(output_rows) >= 3
    /\ files_processed >= 2
    /\ output_rows[Len(output_rows)] = clean_row

HeaderLine == <<"e","m","a","i","l",",","n","a","m","e",",","p","h","o","n","e">>
JohnSmithLine == <<"j","o","h","n","@","x",".","c","o","m",",","J","o","h","n"," ","S","m","i","t","h",",","0","7","9","1","1","1","2","3","4","5","6">>
JohnSLine == <<"j","o","h","n","@","x",".","c","o","m",",","J","o","h","n"," ","S",".",",","0","7","9","1","1","1","2","3","4","5","6">>

\* the input directory holds file A and file B and nothing else
ScenarioDirectory ==
    /\ Len(listing) = 2
    /\ {listing[1], listing[2]} = {FileA, FileB}

\* C4 as stated: for the directory of file A and file B every run ends with
\* the one data row john@x.com,John Smith,07911123456 and the report 2 files,
\* 2 rows read, 1 written, 0 empty, 1 duplicate, 0 invalid.
C4_Original ==
    (ScenarioDirectory /\ pc = "done") =>
        /\ out_file = <<HeaderLine, JohnSmithLine>>
        /\ counters = <<2, 2, 1, 0, 1, 0>>

\* C4 amended: for that directory every run ends with the report 2 files,
\* 2 rows read, 1 written, 0 empty, 1 duplicate, 0 invalid and one data row,
\* which is john@x.com,John Smith,07911123456 when the listing gives file A
\* first and john@x.com,John S.,07911123456 when it gives file B first.
C4_EndToEnd ==
    (ScenarioDirectory /\ pc = "done") =>
        /\ counters = <<2, 2, 1, 0, 1, 0>>
        /\ out_file = <<HeaderLine,
                        IF listing[1] = FileA THEN JohnSmithLine ELSE JohnSLine>>

\* a finished run in which the listing gave file B before file A
C4_Witness ==
    /\ pc = "done"
    /\ listing = <<FileB, FileA>>
    /\ out_file = <<HeaderLine, JohnSLine>>

\* C8 as stated: for every canonical field some header normalizes to, the
\* Header Mapping holds the first such header in file order and the field's
\* cleaned value in every row comes from that first column.
C8_Original ==
    [][rows_read' # rows_read =>
        LET cells == csv_reader(Head(drop_blank(reader)))
        IN  \A col \in REQUIRED_SET :
              LET cols == {i \in 1..Len(fieldnames) :
                              normalize_header(fieldnames[i]) = col}
                  first == CHOOSE i \in cols : \A j \in cols : i <= j
                  cell == IF first <= Len(cells) THEN cells[first] ELSE None
              IN  cols # {} =>
                    /\ col \in DOMAIN mapping
                    /\ mapping[col] = fieldnames[first]
                    /\ clean_row'[col] = IF col = Phone THEN clean_phone(cell)
                                         ELSE clean_value(cell, col)
    ]_vars

\* C9 as stated: visiting a .csv file without a header row leaves the six
\* counters, the Seen Set and the Output Collection as they were, and the
\* run goes on to the next entry.
C9_Original ==
    [][(/\ pc = "loop"
        /\ file_idx <= Len(listing)
        /\ is_csv(listing[file_idx].name)
        /\ DictReader_fieldnames(listing[file_idx].lines) \in {None, <<>>})
         => /\ counters' = counters
            /\ seen' = seen
            /\ output_rows' = output_rows
            /\ file_idx' = file_idx + 1
            /\ pc' = "loop"
    ]_vars

\* C10: in every state rows_read is the sum of the four outcome counters and
\* rows_written is the length of the Output Collection and the size of the
\* Seen Set; a row moves rows_read by one and exactly one outcome counter by
\* one; no counter ever decreases.
C10_CounterConservation ==
    /\ [](/\ rows_read = rows_written + rows_skipped_empty + dupes_removed
                           + rows_skipped_invalid_email
          /\ rows_written = Len(output_rows)
          /\ rows_written = Cardinality(seen))
    /\ [][/\ rows_read' # rows_read =>
                /\ rows_read' = rows_read + 1
                /\ OutcomeDelta \in {<<1,0,0,0>>, <<0,1,0,0>>, <<0,0,1,0>>, <<0,0,0,1>>}
          /\ \A i \in 1..Len(counters) : counters'[i] >= counters[i]
       ]_vars

\* rows of all four outcomes have been counted
C10_Witness ==
    /\ rows_skipped_empty >= 1
    /\ rows_skipped_invalid_email >= 1
    /\ dupes_removed >= 1
    /\ rows_written >= 2

----------------------------------------------------------------------------
(* Properties of looks_like_email (SpecEmail) *)

\* the tests of the claim applied to a string t
EmailShape(t) ==
    /\ \A i \in 1..Len(t) : t[i] \notin WS
    /\ \E i \in 2..(Len(t) - 1) :
          /\ t[i] = "@"
          /\ \A j \in 1..Len(t) : t[j] = "@" => j = i
          /\ \E j \in (i + 1)..Len(t) : t[j] = "."

\* C5 as stated: looks_like_email(s) is false when s is empty, holds a
\* whitespace character anywhere (leading, trailing or internal) or does not
\* hold exactly one '@'; otherwise it is false when the part before or after
\* the '@' is empty or the part after it has no '.', and true otherwise.
C5_Original ==
    Len(ret) = 1 => ret[1] = EmailShape(arg)

\* C5 amended: looks_like_email(s) decides on s with its leading and trailing
\* whitespace trimmed: false when the trimmed string is empty, holds a
\* whitespace character (whitespace inside s) or does not hold exactly one
\* '@'; otherwise false when the part before or after the '@' is empty or
\* the part after it has no '.', and true otherwise.
C5_LooksLikeEmailTrimmed ==
    Len(ret) = 1 =>
        LET first == CHOOSE i \in 1..Len(arg) : arg[i] \notin WS
            last == CHOOSE i \in 1..Len(arg) :
                        arg[i] \notin WS /\ \A j \in (i + 1)..Len(arg) : arg[j] \in WS
        IN  ret[1] = /\ \E i \in 1..Len(arg) : arg[i] \notin WS
                     /\ EmailShape(SubSeq(arg, first, last))

\* an address with whitespace in front of it was accepted
C5_Witness ==
    /\ Len(ret) = 1
    /\ ret[1] = TRUE
    /\ arg # <<>>
    /\ arg[1] \in WS

----------------------------------------------------------------------------
(* Properties of clean_value for the email field (SpecValue) *)

AngleBrackets == {"<", ">"}

\* the value once whitespace is normalised, wrapping quotes are peeled, all
\* whitespace is removed and the letters are lowercased
BeforeBrackets(val) == lower(remove_ws(strip_wrapping_quotes(normalize_ws(val))))

\* the null-sentinel collapse at the end of clean_value
NullCollapse(s) == IF lower(s) \in NULL_LIKE THEN <<>> ELSE s

JohnDoeRaw == <<" "," ","<","J","o","h","n",".","D","o","e","@","E","x","a","m","p","l","e",".","c","o","m",">"," ">>
JohnDoeClean == <<"j","o","h","n",".","d","o","e","@","e","x","a","m","p","l","e",".","c","o","m">>

\* C6 as stated: for the email field clean_value removes all whitespace,
\* lowercases and then takes off at most one leading '<' and at most one
\* trailing '>', keeping every further angle bracket.
C6_Original ==
    (Len(ret) = 1 /\ arg # None) =>
        ret[1] = NullCollapse(one_layer(BeforeBrackets(arg)))

\* C6 amended: for the email field clean_value removes all whitespace,
\* lowercases and then takes off every '<' and '>' at the two ends, however
\* many there are and in whatever order, so that what is left neither begins
\* nor ends with an angle bracket; angle brackets between other characters
\* are kept; a null sentinel left over gives ''.  '  <John.Doe@Example.com> '
\* gives 'john.doe@example.com'.
C6_EmailBracketsStripped ==
    (Len(ret) = 1 /\ arg # None) =>
        LET t == BeforeBrackets(arg)
        IN  /\ \E i \in 1..(Len(t) + 1) : \E j \in (i - 1)..Len(t) :
                  /\ \A k \in 1..(i - 1) : t[k] \in AngleBrackets
                  /\ \A k \in (j + 1)..Len(t) : t[k] \in AngleBrackets
                  /\ i <= j => (t[i] \notin AngleBrackets /\ t[j] \notin AngleBrackets)
                  /\ ret[1] = NullCollapse(SubSeq(t, i, j))
            /\ arg = JohnDoeRaw => ret[1] = JohnDoeClean

\* two opening brackets in front of an address were both taken off
C6_Witness ==
    /\ Len(ret) = 1
    /\ arg # None
    /\ Len(arg) >= 3
    /\ arg[1] = "<"
    /\ arg[2] = "<"
    /\ ret[1] # <<>>
    /\ \A i \in 1..Len(ret[1]) : ret[1][i] \notin AngleBrackets

----------------------------------------------------------------------------
(* Properties of normalize_header (SpecHeader) *)

\* C7 as stated: normalize_header(normalize_header(h)) = normalize_header(h)
\* for every header h, and email, name and phone map to themselves.
C7_Original ==
    /\ (Len(ret) >= 1 /\ arg \in REQUIRED_SET) => ret[1] = arg
    /\ Len(ret) = 2 => ret[2] = ret[1]

====
